---- MODULE Spec2Model ----
(***************************************************************************)
(* Model of PitchGuesser.py: the PitchData / PitchModelBuild /             *)
(* PitchGuessPost construction pipeline (fetch, clean, split, fit) over a  *)
(* raw-snapshot pickle, per-classifier model pickles and the statcast feed.*)
(***************************************************************************)
EXTENDS Integers, Sequences, FiniteSets, TLC

VARIABLES feed,         \* the records the external feed serves (bball.statcast)
          pkl,          \* {tmpdir}/pitch_data.pkl: <<>> if absent, <<df>> if present
          model_files,  \* model pickles: function from existing paths to their content
          run           \* observation of the last construction (its self.* fields)

vars == <<feed, pkl, model_files, run>>

(* ---------------------------- bounds ---------------------------------- *)
MaxDate == 3        \* game dates are 1..MaxDate
MaxRows == 6        \* longest assembled frame a construction is run on

Dates == 1..MaxDate

(* ------------------------- feed records -------------------------------- *)
\* A missing cell (NaN) is <<>>, a present cell is <<v>>.
Rec(i, d, name, p, speed, spin) ==
    [id |-> i, game_date |-> d, pitch_name |-> name, pitcher |-> p,
     release_speed |-> speed, release_pos_x |-> <<1>>, release_pos_z |-> <<1>>,
     release_spin_rate |-> spin]

Universe ==
    { Rec(1, 1, "Changeup", 1, <<1>>, <<1>>),
      Rec(2, 2, "Changeup", 2, <<1>>, <<>>),
      Rec(3, 3, "Sweeper",  1, <<1>>, <<2>>),
      Rec(4, 3, "Slider",   2, <<>>,  <<1>>),
      Rec(5, 2, "4-Seam Fastball", 1, <<1>>, <<2>>) }

Feeds == SUBSET Universe

(* ------------------------- PitchData ----------------------------------- *)
pitches == <<"4-Seam Fastball", "Changeup", "Curveball", "Cutter", "Sinker", "Slider">>

Range(s) == { s[i] : i \in DOMAIN s }

\* position of a label in self.pitches (0 when it is not one of them)
PitchIndex(name) ==
    IF name \in Range(pitches) THEN CHOOSE i \in DOMAIN pitches : pitches[i] = name ELSE 0

RECURSIVE SeqDesc(_)
SeqDesc(S) ==
    IF S = {} THEN <<>>
    ELSE LET m == CHOOSE x \in S : \A y \in S :
                     \/ x.game_date > y.game_date
                     \/ x.game_date = y.game_date /\ x.id >= y.id
         IN  <<m>> \o SeqDesc(S \ {m})

\* bball.statcast(start_dt, end_dt): the feed's records of the inclusive range,
\* latest first
statcast(f, start_dt, end_dt) ==
    SeqDesc({ r \in f : start_dt <= r.game_date /\ r.game_date <= end_dt })

game_date_min(df) == CHOOSE d \in { r.game_date : r \in Range(df) } :
                        \A r \in Range(df) : d <= r.game_date
game_date_max(df) == CHOOSE d \in { r.game_date : r \in Range(df) } :
                        \A r \in Range(df) : d >= r.game_date

\* __get_from_date; on an empty frame min() is NaT and the comparison is False
FromQuery(df, start_ts) ==
    IF df # <<>> /\ start_ts < game_date_min(df)
    THEN << <<start_ts, game_date_min(df)>> >> ELSE <<>>

get_from_date(f, df, start_ts) ==
    IF df # <<>> /\ start_ts < game_date_min(df)
    THEN df \o statcast(f, start_ts, game_date_min(df))
    ELSE df

\* __get_to_date
ToQuery(df, end_ts) ==
    IF df # <<>> /\ end_ts > game_date_max(df) + 1
    THEN << <<game_date_max(df), end_ts>> >> ELSE <<>>

get_to_date(f, df, end_ts) ==
    IF df # <<>> /\ end_ts > game_date_max(df) + 1
    THEN df \o statcast(f, game_date_max(df), end_ts)
    ELSE df

\* df.dropna(subset=['release_speed', 'release_pos_x', 'release_pos_z'])
Complete(r) == r.release_speed # <<>> /\ r.release_pos_x # <<>> /\ r.release_pos_z # <<>>
dropna(df) == SelectSeq(df, Complete)

\* df.fillna(method='ffill'): a missing cell takes the last present value above it
RECURSIVE ffill_from(_, _)
ffill_from(df, above) ==
    IF df = <<>> THEN <<>>
    ELSE LET r == Head(df)
             v == IF r.release_spin_rate = <<>> THEN above ELSE r.release_spin_rate
         IN  << [r EXCEPT !.release_spin_rate = v] >> \o ffill_from(Tail(df), v)

ffill(df) == ffill_from(df, <<>>)

\* sort_values(by=['pitch_name', 'game_date', 'pitcher']) on recognised labels
RowLess(a, b) ==
    \/ PitchIndex(a.pitch_name) < PitchIndex(b.pitch_name)
    \/ /\ PitchIndex(a.pitch_name) = PitchIndex(b.pitch_name)
       /\ \/ a.game_date < b.game_date
          \/ a.game_date = b.game_date /\ a.pitcher < b.pitcher

RECURSIVE Insert(_, _)
Insert(r, s) ==
    IF s = <<>> THEN <<r>>
    ELSE IF RowLess(r, Head(s)) THEN <<r>> \o s
    ELSE <<Head(s)>> \o Insert(r, Tail(s))

RECURSIVE sort_values(_)
sort_values(df) ==
    IF df = <<>> THEN <<>>
    ELSE Insert(df[Len(df)], sort_values(SubSeq(df, 1, Len(df) - 1)))

IsPitch(r) == r.pitch_name \in Range(pitches)

\* __clean_data without its last line (the date-range restriction)
clean_data_unrestricted(df, start_ts, end_ts) ==
    sort_values(SelectSeq(ffill(dropna(df)), IsPitch))

\* the frame __clean_data returns (the pickle it writes is dropna(df))
clean_data(df, start_ts, end_ts) ==
    LET InRange(r) == r.game_date >= start_ts /\ r.game_date <= end_ts
    IN  SelectSeq(sort_values(SelectSeq(ffill(dropna(df)), IsPitch)), InRange)

\* __get_data up to the frame handed to __clean_data
BaseFrame(f, p, refresh, start_ts, end_ts) ==
    IF p # <<>> /\ ~refresh THEN p[1] ELSE statcast(f, start_ts, end_ts)

BaseQuery(p, refresh, start_ts, end_ts) ==
    IF p # <<>> /\ ~refresh THEN <<>> ELSE << <<start_ts, end_ts>> >>

Assembled(f, p, refresh, start_ts, end_ts) ==
    get_to_date(f, get_from_date(f, BaseFrame(f, p, refresh, start_ts, end_ts), start_ts), end_ts)

Queries(f, p, refresh, start_ts, end_ts) ==
    LET base == BaseFrame(f, p, refresh, start_ts, end_ts)
    IN  BaseQuery(p, refresh, start_ts, end_ts) \o FromQuery(base, start_ts)
          \o ToQuery(get_from_date(f, base, start_ts), end_ts)

(* ------------------------- PitchModelBuild ----------------------------- *)
\* class attributes `model` and `model_pkl`; <<>> stands for None
ClassModel(cls) ==
    CASE cls = "PitchRFC" -> <<"GridSearchCV(RandomForestClassifier)">>
      [] cls = "PitchGBC" -> <<"GradientBoostingClassifier">>
      [] cls = "PitchKNN" -> <<"GridSearchCV(KNeighborsClassifier)">>
      [] OTHER -> <<>>

\* a path is kept as the two parts model_pkl.split('.') yields
ClassModelPkl(cls) ==
    CASE cls = "PitchRFC" -> << [fname |-> "tmpdir/RFC", ext |-> "pkl"] >>
      [] cls = "PitchGBC" -> << [fname |-> "tmpdir/GBC", ext |-> "pkl"] >>
      [] cls = "PitchKNN" -> << [fname |-> "tmpdir/KNN", ext |-> "pkl"] >>
      [] OTHER -> <<>>

\* __get_exp_model_path dropping the variant's suffix
get_exp_model_path_same(model_pkl, exper) == model_pkl

\* __get_exp_model_path
get_exp_model_path(model_pkl, exper) ==
    [fname |-> model_pkl.fname \o "_" \o exper, ext |-> model_pkl.ext]

\* __experiment: the model path in effect afterwards
experiment_path(model_pkl, experiment) ==
    IF experiment = 1 THEN get_exp_model_path(model_pkl, "scaled")
    ELSE IF experiment = 2 THEN get_exp_model_path(model_pkl, "add_feature")
    ELSE IF experiment = 5 THEN get_exp_model_path(model_pkl, "random")
    ELSE model_pkl

\* __experiment: the transform applied to the feature matrix
experiment_columns(experiment) ==
    IF experiment = 1 THEN "scale"
    ELSE IF experiment = 2 THEN "derived"
    ELSE IF experiment = 5 THEN "noise"
    ELSE "none"

\* __set_x_y: a row of X (skip_cols removed; id is the row's identity)
FeatureRow(r) ==
    [id |-> r.id, release_speed |-> r.release_speed, release_pos_x |-> r.release_pos_x,
     release_pos_z |-> r.release_pos_z, release_spin_rate |-> r.release_spin_rate]

\* X after __experiment; the noise columns are an unseeded draw
set_x(raw_data, experiment, draw) ==
    [columns |-> experiment_columns(experiment),
     rows    |-> [i \in DOMAIN raw_data |-> FeatureRow(raw_data[i])],
     noise   |-> IF experiment = 5 THEN draw ELSE 0]

\* LabelEncoder().fit_transform: the code of a label is its rank among the
\* sorted distinct labels of the column (self.pitches is in sorted order)
LabelCode(names, name) ==
    Cardinality({ l \in names : PitchIndex(l) < PitchIndex(name) })

set_y(raw_data) ==
    LET names == { raw_data[i].pitch_name : i \in DOMAIN raw_data }
    IN  [i \in DOMAIN raw_data |-> LabelCode(names, raw_data[i].pitch_name)]

\* numpy RandomState(random_state = 42).permutation(n), 0-based, for n = 0..8
permutation(n) ==
    << <<>>, <<0>>, <<1, 0>>, <<0, 1, 2>>, <<1, 3, 0, 2>>, <<1, 4, 2, 0, 3>>,
       <<0, 1, 5, 2, 4, 3>>, <<0, 1, 5, 2, 4, 3, 6>>,
       <<1, 5, 0, 7, 2, 4, 3, 6>> >>[n + 1]

\* train_test_split: n_test = ceil(test_size * n), test_size in percent
n_test_of(n, test_size) == (test_size * n + 99) \div 100

ind_test(n, test_size) == SubSeq(permutation(n), 1, n_test_of(n, test_size))
ind_train(n, test_size) == SubSeq(permutation(n), n_test_of(n, test_size) + 1, n)

Take(s, ind) == [k \in DOMAIN ind |-> s[ind[k] + 1]]

\* __fit testing only the existence of the file
must_fit_no_refresh(files, model_pkl, refresh) == model_pkl \notin DOMAIN files

\* __fit: whether the classifier is fitted (and dumped) rather than loaded
must_fit(files, model_pkl, refresh) == model_pkl \notin DOMAIN files \/ refresh

WriteFile(files, path, content) ==
    [p \in DOMAIN files \cup {path} |-> IF p = path THEN content ELSE files[p]]

Experiments == {0, 1, 2, 5}
FitTestSizes == {30}
NoiseDraws == {1, 2}

NoRun == [cls |-> "", start_dt |-> 0, end_dt |-> 0, refresh |-> FALSE,
          test_size |-> 0, experiment |-> 0,
          outcome |-> "none", queries |-> <<>>, df |-> <<>>, raw_data |-> <<>>,
          model_pkl |-> <<>>, X_train |-> <<>>, X_test |-> <<>>,
          y_train |-> <<>>, y_test |-> <<>>, fitted |-> FALSE, model |-> <<>>,
          cm_size |-> 0]

Init ==
    /\ feed \in Feeds
    /\ pkl = <<>>
    /\ model_files = <<>>
    /\ run = NoRun

\* Construction of an object of class cls: PitchData.__post_init__, then
\* PitchModelBuild.__post_init__, then PitchGuessPost.__post_init__.
Construct(cls, start_dt, end_dt, refresh, test_size, experiment) ==
    \E base \in { BaseFrame(feed, pkl, refresh, start_dt, end_dt) } :
    \E df \in { Assembled(feed, pkl, refresh, start_dt, end_dt) } :
    \E raw_data \in { clean_data(df, start_dt, end_dt) } :
    LET args == [NoRun EXCEPT !.cls = cls, !.start_dt = start_dt, !.end_dt = end_dt,
                    !.refresh = refresh, !.test_size = test_size,
                    !.experiment = experiment]
        data == [args EXCEPT !.queries = Queries(feed, pkl, refresh, start_dt, end_dt),
                    !.df = df, !.raw_data = raw_data]
        n    == Len(raw_data)
    IN  /\ start_dt <= end_dt
        /\ Len(df) <= MaxRows
        /\ UNCHANGED feed
        /\ \/ \* the feed's empty frame has no game_date column: AttributeError
              /\ (pkl = <<>> \/ refresh) /\ base = <<>>
              /\ run' = [args EXCEPT !.outcome = "feed_error",
                            !.queries = BaseQuery(pkl, refresh, start_dt, end_dt)]
              /\ UNCHANGED <<pkl, model_files>>
           \/ \* ... or the frame has its columns and __get_data goes on
              /\ pkl' = << dropna(df) >>
              /\ IF cls = "PitchData"
                 THEN /\ run' = [data EXCEPT !.outcome = "ok"]
                      /\ UNCHANGED model_files
                 ELSE IF ClassModel(cls) = <<>> \/ ClassModelPkl(cls) = <<>>
                 THEN \* ValueError('A model must be passed') / ('A model pickle ...')
                      /\ run' = [data EXCEPT !.outcome = "missing_arg"]
                      /\ UNCHANGED model_files
                 ELSE
                 \E P \in { experiment_path(ClassModelPkl(cls)[1], experiment) } :
                 IF n - n_test_of(n, test_size) = 0
                 THEN \* train_test_split: the resulting train set will be empty
                      /\ run' = [data EXCEPT !.outcome = "split_error", !.model_pkl = <<P>>]
                      /\ UNCHANGED model_files
                 ELSE
                 \E draw \in (IF experiment = 5 THEN NoiseDraws ELSE {0}) :
                 \E X \in { set_x(raw_data, experiment, draw) } :
                 \E y \in { set_y(raw_data) } :
                 \E X_train \in { [X EXCEPT !.rows = Take(X.rows, ind_train(n, test_size))] } :
                 \E X_test \in { [X EXCEPT !.rows = Take(X.rows, ind_test(n, test_size))] } :
                 \E y_train \in { Take(y, ind_train(n, test_size)) } :
                 \E y_test \in { Take(y, ind_test(n, test_size)) } :
                 \E do_fit \in { must_fit(model_files, P, refresh) } :
                 \* __fit
                 \E model \in { IF do_fit
                                THEN [estimator |-> ClassModel(cls)[1],
                                      X |-> X_train, y |-> y_train]
                                ELSE model_files[P] } :
                 /\ model_files' = IF do_fit THEN WriteFile(model_files, P, model)
                                   ELSE model_files
                 \* __prediction: some of the classes the model was fitted on
                 /\ \E predicted \in SUBSET Range(model.y) :
                      LET cm_size == Cardinality(Range(y_test) \cup predicted)
                      IN  /\ predicted # {}
                          /\ Cardinality(predicted) <= Len(y_test)
                          \* __get_cm: DataFrame(..., index=self.pitches) raises
                          \* unless the matrix is 6 x 6
                          /\ run' = [data EXCEPT !.model_pkl = <<P>>,
                                        !.X_train = X_train, !.X_test = X_test,
                                        !.y_train = y_train, !.y_test = y_test,
                                        !.fitted = do_fit, !.model = <<model>>,
                                        !.cm_size = cm_size,
                                        !.outcome = IF cm_size = Len(pitches)
                                                    THEN "ok" ELSE "cm_error"]

\* test_size: float = 0.30 and experiment: int = 0 are the dataclass defaults
NewPitchData ==
    \E s \in Dates, e \in Dates, r \in BOOLEAN : Construct("PitchData", s, e, r, 30, 0)

NewPitchModelBuild ==
    \E s \in Dates, e \in Dates, r \in BOOLEAN : Construct("PitchModelBuild", s, e, r, 30, 0)

NewPitchGuessPost ==
    \E s \in Dates, e \in Dates, r \in BOOLEAN : Construct("PitchGuessPost", s, e, r, 30, 0)

Next ==
    \/ NewPitchData
    \/ NewPitchModelBuild
    \/ NewPitchGuessPost

Spec == Init /\ [][Next]_vars

(* ---------------- the classifier classes, on one feed ------------------ *)
FitFeeds == { { r \in Universe : r.id \in {2, 5} }, { r \in Universe : r.id \in {1, 2} } }
FitRanges == { <<1, 3>> }

InitFit ==
    /\ feed \in FitFeeds
    /\ pkl = <<>>
    /\ model_files = <<>>
    /\ run = NoRun

\* constructions of one classifier class: the files written so far are its own
NewClassifier(cls) ==
    /\ \A p \in DOMAIN model_files :
          \E x \in Experiments : p = experiment_path(ClassModelPkl(cls)[1], x)
    /\ \E d \in FitRanges, r \in BOOLEAN, t \in FitTestSizes, x \in Experiments :
          Construct(cls, d[1], d[2], r, t, x)

NewPitchRFC == NewClassifier("PitchRFC")
NewPitchGBC == NewClassifier("PitchGBC")
NewPitchKNN == NewClassifier("PitchKNN")

NextFit ==
    \/ NewPitchRFC
    \/ NewPitchGBC
    \/ NewPitchKNN

SpecFit == InitFit /\ [][NextFit]_vars

(* ------------------------------ properties ----------------------------- *)
HasData(r) == r.outcome \in {"ok", "missing_arg", "split_error", "cm_error"}
HasSplit(r) == r.cls \in {"PitchRFC", "PitchGBC", "PitchKNN"} /\ r.outcome \in {"ok", "cm_error"}

Ids(rows) == { rows[i].id : i \in DOMAIN rows }
NoDuplicates(rows) == \A i, j \in DOMAIN rows : rows[i].id = rows[j].id => i = j
FeedRecord(i) == CHOOSE r \in feed : r.id = i

\* C1: every row of the cleaned output (raw_data) carries one of the six
\* recognised pitch names and a game date within [start_dt, end_dt].
C1_CleanedInLabelsAndRange ==
    HasData(run) =>
        \A i \in DOMAIN run.raw_data :
            /\ run.raw_data[i].pitch_name \in Range(pitches)
            /\ run.start_dt <= run.raw_data[i].game_date
            /\ run.raw_data[i].game_date <= run.end_dt

\* a non-empty cleaned output of a frame that held an unrecognised label and a
\* date outside the requested range
C1_Witness ==
    /\ HasData(run)
    /\ run.raw_data # <<>>
    /\ \E r \in Range(run.df) : Complete(r) /\ r.pitch_name \notin Range(pitches)
    /\ \E r \in Range(run.df) :
          Complete(r) /\ IsPitch(r) /\ (r.game_date < run.start_dt \/ r.game_date > run.end_dt)

\* C2: the frame assembled by __get_data / __get_from_date / __get_to_date
\* holds every feed record whose game date lies in [start_dt, end_dt].
C2_AssembledCoversRange ==
    HasData(run) =>
        \A r \in feed :
            (run.start_dt <= r.game_date /\ r.game_date <= run.end_dt)
                => r.id \in Ids(run.df)

\* C3: a construction repeated with refresh = False and the same arguments on
\* an unchanged feed yields the same cleaned rows, the same train/test split
\* and leaves the model pickles as they were.
C3_Idempotent ==
    [][ ( /\ HasSplit(run) /\ HasSplit(run')
          /\ ~run.refresh /\ ~run'.refresh
          /\ run'.cls = run.cls
          /\ run'.start_dt = run.start_dt /\ run'.end_dt = run.end_dt
          /\ run'.test_size = run.test_size /\ run'.experiment = run.experiment )
        => ( /\ run'.raw_data = run.raw_data
             /\ run'.X_train = run.X_train /\ run'.X_test = run.X_test
             /\ run'.y_train = run.y_train /\ run'.y_test = run.y_test
             /\ model_files' = model_files ) ]_vars

\* C4: no record is both in the train and in the test subset, the two sizes
\* add up to the cleaned row count, and the test subset has test_size of the
\* rows within rounding.
C4_SplitDisjoint ==
    HasSplit(run) =>
        /\ Ids(run.X_train.rows) \cap Ids(run.X_test.rows) = {}
        /\ Len(run.X_train.rows) + Len(run.X_test.rows) = Len(run.raw_data)
        /\ 100 * Len(run.X_test.rows) - run.test_size * Len(run.raw_data) \in 0 .. 99

\* C5: a cleaned row whose optional field (release_spin_rate) was missing in
\* the feed holds the value of the row just before it in the cleaned output.
C5_FilledFromSortedPredecessor ==
    HasData(run) =>
        \A i \in DOMAIN run.raw_data :
            (i > 1 /\ FeedRecord(run.raw_data[i].id).release_spin_rate = <<>>)
                => run.raw_data[i].release_spin_rate
                     = run.raw_data[i - 1].release_spin_rate

\* C6: with P the model path after the experiment redirect, the classifier is
\* fitted on the training split and dumped to P exactly when P does not exist
\* or refresh is set; otherwise the model is the content of P and P is left
\* as it was. Either way P then exists and holds the model in use.
C6_FitDecision ==
    [][ HasSplit(run') =>
          LET P == run'.model_pkl[1]
          IN  /\ P = experiment_path(ClassModelPkl(run'.cls)[1], run'.experiment)
              /\ run'.fitted <=> (P \notin DOMAIN model_files \/ run'.refresh)
              /\ run'.fitted =>
                    model_files'[P] = [estimator |-> ClassModel(run'.cls)[1],
                                       X |-> run'.X_train, y |-> run'.y_train]
              /\ ~run'.fitted =>
                    /\ run'.model[1] = model_files[P]
                    /\ model_files'[P] = model_files[P]
              /\ P \in DOMAIN model_files'
              /\ model_files'[P] = run'.model[1] ]_vars

\* a construction under the scale experiment that loaded a model fitted on
\* another training split than its own
C6_Witness ==
    /\ HasSplit(run)
    /\ ~run.fitted
    /\ run.experiment = 1
    /\ run.model[1].X # run.X_train
    /\ model_files[run.model_pkl[1]] = run.model[1]

\* C7: a construction that raises the missing-argument error has queried the
\* feed not at all and leaves the raw snapshot and the model pickles untouched.
C7_MissingArgImmediate ==
    [][ run'.outcome = "missing_arg" =>
          /\ run'.queries = <<>>
          /\ pkl' = pkl
          /\ model_files' = model_files ]_vars

\* C8: the code the encoding gives a label is its position in self.pitches
\* (the label the confusion matrix puts on that row and column), also when
\* fewer than six labels occur.
C8_CodeIsPitchPosition ==
    HasSplit(run) =>
        /\ \A k \in DOMAIN run.y_train :
              pitches[run.y_train[k] + 1] = FeedRecord(run.X_train.rows[k].id).pitch_name
        /\ \A k \in DOMAIN run.y_test :
              pitches[run.y_test[k] + 1] = FeedRecord(run.X_test.rows[k].id).pitch_name

\* C9: the extension queries cover only dates outside the base range, and no
\* feed record occurs twice in the assembled frame or in the raw snapshot.
C9_OnlyMissingSpanFetched ==
    /\ HasData(run) => NoDuplicates(run.df)
    /\ pkl # <<>> => NoDuplicates(pkl[1])

\* C10: every (classifier, transform variant) pair has a model path of its
\* own, every model pickle holds a fit of its own variant, and a construction
\* never uses a model fitted on another variant's feature matrix.
C10_VariantsDoNotCollide ==
    /\ \A c1, c2 \in {"PitchRFC", "PitchGBC", "PitchKNN"} : \A x1, x2 \in Experiments :
          experiment_path(ClassModelPkl(c1)[1], x1) = experiment_path(ClassModelPkl(c2)[1], x2)
              => (c1 = c2 /\ x1 = x2)
    /\ HasSplit(run) =>
          /\ run.model[1].X.columns = experiment_columns(run.experiment)
          /\ run.model[1].estimator = ClassModel(run.cls)[1]
          /\ \A p \in DOMAIN model_files : \A x \in Experiments :
                p = experiment_path(ClassModelPkl(run.cls)[1], x)
                    => model_files[p].X.columns = experiment_columns(x)

\* a construction under the derived experiment that loaded its model while the
\* pickles of the untransformed and the scale variant exist as well
C10_Witness ==
    /\ HasSplit(run)
    /\ ~run.fitted
    /\ run.experiment = 2
    /\ \A x \in {0, 1} :
          experiment_path(ClassModelPkl(run.cls)[1], x) \in DOMAIN model_files
====
